---- MODULE Spec2Model ----
(***************************************************************************)
(* A model of the RAMP command-line interface (src/src/main.rs): the       *)
(* region catalog and input resolver (Region::to_input), the artifact      *)
(* paths, the RNG construction and the dispatch of the four actions.       *)
(* Code of the ramp library (utilities::read_binary / write_binary,        *)
(* Population::create, the transforms, Model) is not part of main.rs; it   *)
(* is modelled from its documented contract.                               *)
(***************************************************************************)
EXTENDS Integers, Sequences, FiniteSets, TLC

VARIABLES
    pc,          \* position of the running invocation of main(), or "idle"
    action,      \* args.action of the running invocation
    region,      \* the region argument of the action
    seed,        \* args.rng_seed: <<>> (None) or <<s>> (Some(s))
    rng,         \* the StdRng built at main.rs:34-38, <<>> before it is built
    rngMade,     \* how many generators this invocation has constructed
    rngGiven,    \* the callees that received the generator, in order
    source,      \* what to_input read: the table file or the directory
    input,       \* the Input returned by region.to_input()
    population,  \* the Population created or loaded
    calls,       \* the calls main() has made in this invocation, in order
    wrote,       \* the paths this invocation has written to
    result,      \* how the invocation ended ("running" until then)
    fs,          \* the files under processed_data/: path -> contents
    fsStart,     \* fs as it was when the invocation started
    stored,      \* per region, what the writes of write_binary left behind
    prevInit,    \* the last seeded Init that succeeded before this invocation
    invocations, \* number of invocations started so far
    probe,       \* resolver alone: the region, table and directory given
    resolved     \* resolver alone: what to_input returned for the probe

vars == <<pc, action, region, seed, rng, rngMade, rngGiven, source, input, population,
          calls, wrote, result, fs, fsStart, stored, prevInit, invocations,
          probe, resolved>>

pipelineVars == <<pc, action, region, seed, rng, rngMade, rngGiven, source, input,
                  population, calls, wrote, result, fs, fsStart, stored,
                  prevInit, invocations>>

resolverVars == <<probe, resolved>>

-----------------------------------------------------------------------------
(* Bounds of the model *)

\* longest table given to the resolver
MaxRows == 2
\* number of distinct area codes
NumCodes == 2
\* user seeds range over 1..MaxSeed, entropy draws over 0..MaxSeed
MaxSeed == 1
\* number of invocations of the tool in one behaviour
MaxInvocations == 2

-----------------------------------------------------------------------------
(* The region catalog *)

WestYorkshireSmall == 0
WestYorkshireLarge == 1
Devon == 2
TwoCounties == 3
National == 4

Regions == {WestYorkshireSmall, WestYorkshireLarge, Devon, TwoCounties, National}

Actions == {"Init", "PythonCache", "Snapshot", "RunModel"}

\* format!("{:?}", region) of the derived Debug
DebugFormat(r) ==
    CASE r = WestYorkshireSmall -> "WestYorkshireSmall"
      [] r = WestYorkshireLarge -> "WestYorkshireLarge"
      [] r = Devon -> "Devon"
      [] r = TwoCounties -> "TwoCounties"
      [] r = National -> "National"

\* the match of to_input: the table of a region; National has none
csv_input(r) ==
    CASE r = WestYorkshireSmall -> "Input_Test_3.csv"
      [] r = WestYorkshireLarge -> "Input_WestYorkshire.csv"
      [] r = Devon -> "Input_Devon.csv"
      [] r = TwoCounties -> "Input_Test_accross.csv"
      [] r = National -> ""

csv_path(r) == "model_parameters/" \o csv_input(r)

-----------------------------------------------------------------------------
(* Tables and their rows *)

Codes == 1..NumCodes

\* the cases field of a raw row: absent, a number, or text that is no number
CasesFields ==
    {[kind |-> "absent", val |-> 0], [kind |-> "junk", val |-> 0]}
    \cup {[kind |-> "num", val |-> n] : n \in {0, 5}}

RawRows == [msoa : Codes, cases : CasesFields]

Tables == UNION {[1..n -> RawRows] : n \in 0..MaxRows}

\* what File::open finds at csv_path: no file, or a table
NoTable == [present |-> FALSE, rows |-> <<>>]

TableFile(t) == [present |-> TRUE, rows |-> t]

\* what MSOA::all_msoas_nationally returns: an error, or a set of codes
DirectoryDown == [up |-> FALSE, codes |-> {}]

DirectoryOf(S) == [up |-> TRUE, codes |-> S]

EmptyMap == [c \in {} |-> 0]

\* BTreeMap::insert: a later value for a key replaces the earlier one
MapInsert(m, k, v) ==
    [c \in (DOMAIN m) \cup {k} |-> IF c = k THEN v ELSE m[c]]

default_cases == 5

Ok(v) == [ok |-> TRUE, err |-> "", value |-> v]

\* the error path of `?`: the callee's error, and no value
Err(e, v) == [ok |-> FALSE, err |-> e, value |-> v]

EmptyRow == [msoa |-> 0, cases |-> 0]

DeserializeRowAlwaysDefault(raw) ==
    IF raw.cases.kind = "junk"
    THEN Err("MalformedInputRow", EmptyRow)
    ELSE Ok([msoa |-> raw.msoa, cases |-> default_cases])

\* serde's Deserialize of InitialCaseRow: cases falls back to default_cases
\* when the field is missing, and a field that is no usize is an error
DeserializeRow(raw) ==
    CASE raw.cases.kind = "absent" ->
            Ok([msoa |-> raw.msoa, cases |-> default_cases])
      [] raw.cases.kind = "num" ->
            Ok([msoa |-> raw.msoa, cases |-> raw.cases.val])
      [] OTHER -> Err("MalformedInputRow", EmptyRow)

\* the loop of to_input over the rows, from row i on, with the map so far
RECURSIVE InsertRows(_, _, _)
InsertRows(rows, i, m) ==
    IF i > Len(rows)
    THEN Ok(m)
    ELSE LET rec == DeserializeRow(rows[i])
         IN  IF ~rec.ok
             THEN Err(rec.err, EmptyMap)
             ELSE InsertRows(rows, i + 1,
                             MapInsert(m, rec.value.msoa, rec.value.cases))

to_inputAlwaysTable(r, file, dir) ==
    IF ~file.present
    THEN [res |-> Err("SourceUnavailable", EmptyMap), opened |-> {csv_path(r)}]
    ELSE [res |-> InsertRows(file.rows, 1, EmptyMap), opened |-> {csv_path(r)}]

\* Region::to_input, given what is at csv_path(r) and what the directory
\* returns; opened is the set of table files it opened
to_input(r, file, dir) ==
    IF r = National
    THEN IF ~dir.up
         THEN [res |-> Err("SourceUnavailable", EmptyMap), opened |-> {}]
         ELSE [res |-> Ok([c \in dir.codes |-> default_cases]), opened |-> {}]
    ELSE IF ~file.present
         THEN [res |-> Err("SourceUnavailable", EmptyMap),
               opened |-> {csv_path(r)}]
         ELSE [res |-> InsertRows(file.rows, 1, EmptyMap),
               opened |-> {csv_path(r)}]

-----------------------------------------------------------------------------
(* The generator *)

Seeds == 1..MaxSeed

None == <<>>

Some(s) == <<s>>

SeedOptions == {None} \cup {Some(s) : s \in Seeds}

\* what the entropy source can give: any seed, a user's included
EntropyDraws == 0..MaxSeed

MakeRngIgnoringSeed(s, e) == e

\* main.rs:34-38: StdRng::seed_from_u64(seed) is determined by the seed;
\* StdRng::from_entropy() is seeded with whatever the entropy source gives (e)
MakeRng(s, e) == IF s # None THEN s[1] ELSE e

-----------------------------------------------------------------------------
(* Artifact paths *)

\* main.rs:46
InitOutputPath(r) == "processed_data/" \o DebugFormat(r) \o ".bin"

PythonCacheInputPathOff(r) == "processed_data/python_cache_" \o DebugFormat(r)

\* main.rs:53
PythonCacheInputPath(r) == "processed_data/" \o DebugFormat(r) \o ".bin"

\* main.rs:54
PythonCacheOutputPath(r) == "processed_data/python_cache_" \o DebugFormat(r)

\* main.rs:61
SnapshotInputPath(r) == "processed_data/" \o DebugFormat(r) \o ".bin"

SnapshotOutputPathBin(r) == "processed_data/" \o DebugFormat(r) \o ".bin"

\* main.rs:63
SnapshotOutputPath(r) ==
    "processed_data/snapshot_" \o DebugFormat(r) \o ".npz"

\* main.rs:70
RunModelInputPath(r) == "processed_data/" \o DebugFormat(r) \o ".bin"

\* the path the read_binary call of a downstream action is given
InputPath(a, r) ==
    CASE a = "PythonCache" -> PythonCacheInputPath(r)
      [] a = "Snapshot" -> SnapshotInputPath(r)
      [] a = "RunModel" -> RunModelInputPath(r)

-----------------------------------------------------------------------------
(* The artifact store and the collaborators (ramp library) *)

EmptyPopulation == [initial |-> EmptyMap, draws |-> 0 - 1]

\* Population::create(input, &mut rng): the population is determined by the
\* initial conditions and by the generator's draws
Population_create(inp, g, succeeds) ==
    IF succeeds
    THEN Ok([initial |-> inp, draws |-> g])
    ELSE Err("SynthesisFailure", EmptyPopulation)

\* the entries of map m for the codes from c on, in key order
RECURSIVE Entries(_, _)
Entries(m, c) ==
    IF c > NumCodes
    THEN <<>>
    ELSE (IF c \in DOMAIN m THEN <<c, m[c]>> ELSE <<>>) \o Entries(m, c + 1)

\* the serialized population: entry count, entries in key order, draws
Serialize(pop) ==
    <<Cardinality(DOMAIN pop.initial)>> \o Entries(pop.initial, 1)
        \o <<pop.draws>>

\* the inverse of Serialize; bytes that end early do not decode
Deserialize(bytes) ==
    IF Len(bytes) = 0 \/ Len(bytes) # 2 * bytes[1] + 2
    THEN Err("ArtifactCorrupt", EmptyPopulation)
    ELSE LET n == bytes[1]
             keys == {bytes[2 * i] : i \in 1..n}
         IN  Ok([initial |->
                    [c \in keys |->
                        bytes[2 * (CHOOSE i \in 1..n : bytes[2 * i] = c) + 1]],
                 draws |-> bytes[Len(bytes)]])

FileAt(f, p) == IF p \in DOMAIN f THEN f[p] ELSE [kind |-> "none", data |-> <<>>]

\* a write of `bytes` to `path` that gets as far as `cut` words: -1 when the
\* file cannot even be created, Len(bytes) when the write completes
WriteFile(f, path, kind, bytes, cut) ==
    IF cut < 0
    THEN f
    ELSE [p \in (DOMAIN f) \cup {path} |->
            IF p = path
            THEN [kind |-> kind, data |-> SubSeq(bytes, 1, cut)]
            ELSE f[p]]

WriteResult(bytes, cut) ==
    IF cut = Len(bytes) THEN Ok(0) ELSE Err("WriteFailure", 0)

\* where an interrupted write can stop: before the file is created (-1),
\* with the file created and empty, after the first word, one word short
InterruptedCuts(bytes) ==
    {-1, 0, 1, Len(bytes) - 1} \cap ((-1)..(Len(bytes) - 1))

Cuts(bytes) == InterruptedCuts(bytes) \cup {Len(bytes)}

\* utilities::write_binary(&population, path)
write_binary(f, pop, path, cut) ==
    [res |-> WriteResult(Serialize(pop), cut),
     fs |-> WriteFile(f, path, "bin", Serialize(pop), cut)]

\* utilities::read_binary::<Population>(path)
read_binary(f, path) ==
    IF path \notin DOMAIN f
    THEN Err("ArtifactMissing", EmptyPopulation)
    ELSE Deserialize(f[path].data)

\* population.write_python_cache(output)
PythonCacheData(pop) == Serialize(pop)

write_python_cache(f, pop, path, cut) ==
    [res |-> WriteResult(PythonCacheData(pop), cut),
     fs |-> WriteFile(f, path, "dir", PythonCacheData(pop), cut)]

\* Snapshot::convert_to_npz(population, output, &mut rng)
SnapshotData(pop, g) == Serialize(pop) \o <<g>>

convert_to_npz(f, pop, path, g, cut) ==
    [res |-> WriteResult(SnapshotData(pop, g), cut),
     fs |-> WriteFile(f, path, "npz", SnapshotData(pop, g), cut)]

RngArgumentAll(a) ==
    CASE a = "Init" -> <<"Population::create">>
      [] a = "PythonCache" -> <<"write_python_cache">>
      [] a = "Snapshot" -> <<"convert_to_npz">>
      [] a = "RunModel" -> <<"Model::new">>

\* the callee each arm of the match passes the generator to, if any
RngArgument(a) ==
    CASE a = "Init" -> <<"Population::create">>
      [] a = "PythonCache" -> <<>>
      [] a = "Snapshot" -> <<"convert_to_npz">>
      [] a = "RunModel" -> <<"Model::new">>

FailedNever(res) == FALSE

FailedUnlessMissing(res) == ~res.ok /\ res.err # "ArtifactMissing"

FailedUnlessInput(res) ==
    ~res.ok /\ res.err \notin {"SourceUnavailable", "MalformedInputRow"}

\* the `?` after a call in main(): an error ends the invocation
Failed(res) == ~res.ok

-----------------------------------------------------------------------------
(* The inputs the environment can supply *)

\* the table of the spec's scenario: one row with a count, one without
ScenarioTable ==
    <<[msoa |-> 1, cases |-> [kind |-> "num", val |-> 5]],
      [msoa |-> 2, cases |-> [kind |-> "absent", val |-> 0]]>>

MalformedTable ==
    <<[msoa |-> 1, cases |-> [kind |-> "junk", val |-> 0]]>>

\* what the pipeline can find at csv_path
BundledFiles ==
    {NoTable, TableFile(ScenarioTable), TableFile(MalformedTable)}

\* what the pipeline can get from the national directory
Directories == {DirectoryDown, DirectoryOf(Codes)}

-----------------------------------------------------------------------------
(* The state of the tool between invocations *)

NoRegion == 0 - 1

NoRng == 0 - 1

NoSource == [file |-> NoTable, dir |-> DirectoryDown]

NothingStored == [state |-> "none", pop |-> EmptyPopulation]

NoPrevInit ==
    [set |-> FALSE, seed |-> None, region |-> NoRegion, source |-> NoSource,
     data |-> <<>>]

EmptyFs == [p \in {} |-> 0]

IdleInvocation ==
    /\ pc = "idle"
    /\ action = ""
    /\ region = NoRegion
    /\ seed = None
    /\ rng = NoRng
    /\ rngMade = 0
    /\ rngGiven = <<>>
    /\ source = NoSource
    /\ input = EmptyMap
    /\ population = EmptyPopulation
    /\ calls = <<>>
    /\ wrote = {}
    /\ result = ""
    /\ fsStart = EmptyFs

InitPipeline ==
    /\ IdleInvocation
    /\ fs = EmptyFs
    /\ stored = [r \in Regions |-> NothingStored]
    /\ prevInit = NoPrevInit
    /\ invocations = 0

NoProbe == [region |-> NoRegion, file |-> NoTable, dir |-> DirectoryDown]

NotResolved == [done |-> FALSE, res |-> Err("", EmptyMap), opened |-> {}]

Init ==
    /\ InitPipeline
    /\ probe = NoProbe
    /\ resolved = NotResolved

-----------------------------------------------------------------------------
(* One invocation of main() *)

\* what a write that ends at `cut` leaves for the region's population
StoredAfter(old, pop, cut) ==
    IF cut < 0 THEN old
    ELSE IF cut = Len(Serialize(pop))
         THEN [state |-> "complete", pop |-> pop]
         ELSE [state |-> "partial", pop |-> EmptyPopulation]

\* main.rs:32-40: the arguments are parsed and the generator is built
Start(a, r, s, e) ==
    /\ pc = "idle"
    /\ invocations < MaxInvocations
    /\ pc' = "dispatch"
    /\ action' = a
    /\ region' = r
    /\ seed' = s
    /\ rng' = MakeRng(s, e)
    /\ rngMade' = rngMade + 1
    /\ result' = "running"
    /\ fsStart' = fs
    /\ invocations' = invocations + 1
    /\ UNCHANGED <<rngGiven, source, input, population, calls, wrote, fs, stored,
                   prevInit, probe, resolved>>

\* main.rs:42: region.to_input().await?
InitResolve(file, dir) ==
    /\ pc = "dispatch"
    /\ action = "Init"
    /\ LET r == to_input(region, file, dir).res
       IN  /\ calls' = Append(calls, "to_input")
           /\ source' = IF region = National
                         THEN [file |-> NoTable, dir |-> dir]
                         ELSE [file |-> file, dir |-> DirectoryDown]
           /\ IF Failed(r)
              THEN /\ pc' = "done"
                   /\ result' = r.err
                   /\ input' = input
              ELSE /\ pc' = "resolved"
                   /\ result' = result
                   /\ input' = r.value
    /\ UNCHANGED <<action, region, seed, rng, rngMade, rngGiven, population,
                   wrote, fs, fsStart, stored, prevInit, invocations, probe,
                   resolved>>

\* main.rs:43: Population::create(input, &mut rng).await?
InitCreate(succeeds) ==
    /\ pc = "resolved"
    /\ LET r == Population_create(input, rng, succeeds)
       IN  /\ calls' = Append(calls, "Population::create")
           /\ rngGiven' = rngGiven \o RngArgument("Init")
           /\ IF Failed(r)
              THEN /\ pc' = "done"
                   /\ result' = r.err
                   /\ population' = population
              ELSE /\ pc' = "created"
                   /\ result' = result
                   /\ population' = r.value
    /\ UNCHANGED <<action, region, seed, rng, rngMade, source, input, wrote, fs,
                   fsStart, stored, prevInit, invocations, probe, resolved>>

\* main.rs:46-48: utilities::write_binary(&population, output)?
InitWrite(cut) ==
    /\ pc = "created"
    /\ cut \in Cuts(Serialize(population))
    /\ LET path == InitOutputPath(region)
           w == write_binary(fs, population, path, cut)
       IN  /\ calls' = Append(calls, "write_binary")
           /\ fs' = w.fs
           /\ wrote' = IF cut >= 0 THEN wrote \cup {path} ELSE wrote
           /\ stored' = [stored EXCEPT
                            ![region] = StoredAfter(@, population, cut)]
           /\ result' = IF Failed(w.res) THEN w.res.err ELSE "ok"
           /\ pc' = "done"
    /\ UNCHANGED <<action, region, seed, rng, rngMade, rngGiven, source, input,
                   population, fsStart, prevInit, invocations, probe,
                   resolved>>

\* main.rs:52-53, 60-61, 69-70: utilities::read_binary::<Population>(..)?
Load ==
    /\ pc = "dispatch"
    /\ action \in {"PythonCache", "Snapshot", "RunModel"}
    /\ LET r == read_binary(fs, InputPath(action, region))
       IN  /\ calls' = Append(calls, "read_binary")
           /\ IF Failed(r)
              THEN /\ pc' = "done"
                   /\ result' = r.err
                   /\ population' = population
              ELSE /\ pc' = "loaded"
                   /\ result' = result
                   /\ population' = r.value
    /\ UNCHANGED <<action, region, seed, rng, rngMade, rngGiven, source, input, wrote,
                   fs, fsStart, stored, prevInit, invocations, probe,
                   resolved>>

\* main.rs:54-56: population.write_python_cache(output)?
PythonCacheWrite(cut) ==
    /\ pc = "loaded"
    /\ action = "PythonCache"
    /\ cut \in Cuts(PythonCacheData(population))
    /\ LET path == PythonCacheOutputPath(region)
           w == write_python_cache(fs, population, path, cut)
       IN  /\ calls' = Append(calls, "write_python_cache")
           /\ rngGiven' = rngGiven \o RngArgument("PythonCache")
           /\ fs' = w.fs
           /\ wrote' = IF cut >= 0 THEN wrote \cup {path} ELSE wrote
           /\ result' = IF Failed(w.res) THEN w.res.err ELSE "ok"
           /\ pc' = "done"
    /\ UNCHANGED <<action, region, seed, rng, rngMade, source, input,
                   population, fsStart, stored, prevInit, invocations, probe,
                   resolved>>

\* main.rs:63-65: Snapshot::convert_to_npz(population, output, &mut rng)?
SnapshotWrite(cut) ==
    /\ pc = "loaded"
    /\ action = "Snapshot"
    /\ cut \in Cuts(SnapshotData(population, rng))
    /\ LET path == SnapshotOutputPath(region)
           w == convert_to_npz(fs, population, path, rng, cut)
       IN  /\ calls' = Append(calls, "convert_to_npz")
           /\ rngGiven' = rngGiven \o RngArgument("Snapshot")
           /\ fs' = w.fs
           /\ wrote' = IF cut >= 0 THEN wrote \cup {path} ELSE wrote
           /\ result' = IF Failed(w.res) THEN w.res.err ELSE "ok"
           /\ pc' = "done"
    /\ UNCHANGED <<action, region, seed, rng, rngMade, source, input, population,
                   fsStart, stored, prevInit, invocations, probe, resolved>>

\* main.rs:71-72: Model::new(population, rng)?; model.run()?
RunModelRun(outcome) ==
    /\ pc = "loaded"
    /\ action = "RunModel"
    /\ calls' = IF outcome = "new_failed"
                THEN Append(calls, "Model::new")
                ELSE calls \o <<"Model::new", "Model::run">>
    /\ rngGiven' = rngGiven \o RngArgument("RunModel")
    /\ result' = IF outcome = "ok" THEN "ok" ELSE "ModelFailure"
    /\ pc' = "done"
    /\ UNCHANGED <<action, region, seed, rng, rngMade, source, input, population,
                   wrote, fs, fsStart, stored, prevInit, invocations, probe,
                   resolved>>

\* the write that is in flight at this point of the invocation, if any
PendingWrite ==
    CASE pc = "created" ->
            [path |-> InitOutputPath(region), kind |-> "bin",
             data |-> Serialize(population)]
      [] pc = "loaded" /\ action = "PythonCache" ->
            [path |-> PythonCacheOutputPath(region), kind |-> "dir",
             data |-> PythonCacheData(population)]
      [] pc = "loaded" /\ action = "Snapshot" ->
            [path |-> SnapshotOutputPath(region), kind |-> "npz",
             data |-> SnapshotData(population, rng)]
      [] OTHER -> [path |-> "", kind |-> "none", data |-> <<>>]

\* the process is terminated; a write that was in flight stops at `cut`
Kill(cut) ==
    /\ pc \in {"dispatch", "resolved", "created", "loaded"}
    /\ LET w == PendingWrite
       IN  /\ cut \in InterruptedCuts(w.data)
           /\ fs' = IF w.kind = "none" THEN fs
                    ELSE WriteFile(fs, w.path, w.kind, w.data, cut)
           /\ wrote' = IF cut >= 0 THEN wrote \cup {w.path} ELSE wrote
           /\ stored' = IF pc = "created"
                        THEN [stored EXCEPT
                                ![region] = StoredAfter(@, population, cut)]
                        ELSE stored
    /\ result' = "killed"
    /\ pc' = "done"
    /\ UNCHANGED <<action, region, seed, rng, rngMade, rngGiven, source, input,
                   population, calls, fsStart, prevInit, invocations, probe,
                   resolved>>

\* what a finished invocation leaves for the next one to be compared with
PrevInitAfter ==
    IF action = "Init" /\ result = "ok" /\ seed # None
    THEN [set |-> TRUE, seed |-> seed, region |-> region, source |-> source,
          data |-> FileAt(fs, InitOutputPath(region)).data]
    ELSE prevInit

\* main.rs:76: the process exits
Exit ==
    /\ pc = "done"
    /\ pc' = "idle"
    /\ action' = ""
    /\ region' = NoRegion
    /\ seed' = None
    /\ rng' = NoRng
    /\ rngMade' = 0
    /\ rngGiven' = <<>>
    /\ source' = NoSource
    /\ input' = EmptyMap
    /\ population' = EmptyPopulation
    /\ calls' = <<>>
    /\ wrote' = {}
    /\ result' = ""
    /\ fsStart' = EmptyFs
    /\ prevInit' = PrevInitAfter
    /\ UNCHANGED <<fs, stored, invocations, probe, resolved>>

Next ==
    \/ \E a \in Actions, r \in Regions, s \in SeedOptions, e \in EntropyDraws :
            Start(a, r, s, e)
    \/ \E file \in BundledFiles, dir \in Directories : InitResolve(file, dir)
    \/ \E succeeds \in BOOLEAN : InitCreate(succeeds)
    \/ \E cut \in (-1)..(2 * NumCodes + 2) : InitWrite(cut)
    \/ Load
    \/ \E cut \in (-1)..(2 * NumCodes + 2) : PythonCacheWrite(cut)
    \/ \E cut \in (-1)..(2 * NumCodes + 3) : SnapshotWrite(cut)
    \/ \E outcome \in {"ok", "new_failed", "run_failed"} : RunModelRun(outcome)
    \/ \E cut \in (-1)..(2 * NumCodes + 2) : Kill(cut)
    \/ Exit

Spec == Init /\ [][Next]_vars

-----------------------------------------------------------------------------
(* The resolver on its own: to_input applied to every bounded input *)

Probes ==
    [region : Regions,
     file : {NoTable} \cup {TableFile(t) : t \in Tables},
     dir : {DirectoryDown} \cup {DirectoryOf(S) : S \in SUBSET Codes}]

InitResolver ==
    /\ InitPipeline
    /\ probe \in Probes
    /\ resolved = NotResolved

Resolve ==
    /\ ~resolved.done
    /\ LET r == to_input(probe.region, probe.file, probe.dir)
       IN  resolved' = [done |-> TRUE, res |-> r.res, opened |-> r.opened]
    /\ UNCHANGED <<probe, pipelineVars>>

NextResolver == Resolve

SpecResolver == InitResolver /\ [][NextResolver]_vars

-----------------------------------------------------------------------------
(* The paths and values the specification names *)

Downstream == {"PythonCache", "Snapshot", "RunModel"}

\* processed_data/<region>.bin
PopulationArtifact(r) ==
    CASE r = WestYorkshireSmall -> "processed_data/WestYorkshireSmall.bin"
      [] r = WestYorkshireLarge -> "processed_data/WestYorkshireLarge.bin"
      [] r = Devon -> "processed_data/Devon.bin"
      [] r = TwoCounties -> "processed_data/TwoCounties.bin"
      [] r = National -> "processed_data/National.bin"

\* processed_data/python_cache_<region>
CacheDirectory(r) ==
    CASE r = WestYorkshireSmall -> "processed_data/python_cache_WestYorkshireSmall"
      [] r = WestYorkshireLarge -> "processed_data/python_cache_WestYorkshireLarge"
      [] r = Devon -> "processed_data/python_cache_Devon"
      [] r = TwoCounties -> "processed_data/python_cache_TwoCounties"
      [] r = National -> "processed_data/python_cache_National"

\* processed_data/snapshot_<region>.npz
SnapshotFile(r) ==
    CASE r = WestYorkshireSmall -> "processed_data/snapshot_WestYorkshireSmall.npz"
      [] r = WestYorkshireLarge -> "processed_data/snapshot_WestYorkshireLarge.npz"
      [] r = Devon -> "processed_data/snapshot_Devon.npz"
      [] r = TwoCounties -> "processed_data/snapshot_TwoCounties.npz"
      [] r = National -> "processed_data/snapshot_National.npz"

\* the output an action owns
OwnOutput(a, r) ==
    CASE a = "Init" -> {PopulationArtifact(r)}
      [] a = "PythonCache" -> {CacheDirectory(r)}
      [] a = "Snapshot" -> {SnapshotFile(r)}
      [] a = "RunModel" -> {}

\* the paths whose contents differ between two file systems
ChangedPaths(f, g) ==
    {p \in (DOMAIN f) \cup (DOMAIN g) : FileAt(f, p) # FileAt(g, p)}

Running == pc # "idle"

\* the count a raw row gives, 5 standing in for a missing field
RowCount(row) == IF row.cases.kind = "absent" THEN 5 ELSE row.cases.val

WellFormed(rows) == \A i \in 1..Len(rows) : rows[i].cases.kind # "junk"

HasDuplicate(rows) ==
    \E i, j \in 1..Len(rows) : i # j /\ rows[i].msoa = rows[j].msoa

TableProbe == probe.region # National /\ probe.file.present

\* to_input has been called on a source it cannot resolve
UnresolvableSource ==
    /\ calls # <<>>
    /\ IF region = National
       THEN ~source.dir.up
       ELSE ~source.file.present \/ ~WellFormed(source.file.rows)

-----------------------------------------------------------------------------
(* The claims *)

\* C1: a downstream action invoked when processed_data/<r>.bin does not
\* exist ends with ArtifactMissing (unless the process is killed first),
\* writes nothing, leaves the file system as it was, and calls nothing but
\* read_binary: neither the synthesizer nor a transform nor the model.
C1_MissingArtifactFails ==
    (Running /\ action \in Downstream
        /\ PopulationArtifact(region) \notin DOMAIN fsStart)
    => /\ pc \in {"dispatch", "done"}
       /\ pc = "done" => result \in {"ArtifactMissing", "killed"}
       /\ result = "ArtifactMissing" => calls = <<"read_binary">>
       /\ calls \in {<<>>, <<"read_binary">>}
       /\ wrote = {}
       /\ fs = fsStart
       /\ PopulationArtifact(region) \notin DOMAIN fs

\* python-cache for a region without artifact, after an earlier invocation
\* that left some other file, has ended with ArtifactMissing
C1_Witness ==
    /\ pc = "done"
    /\ action = "PythonCache"
    /\ result = "ArtifactMissing"
    /\ PopulationArtifact(region) \notin DOMAIN fsStart
    /\ fsStart # EmptyFs

\* C2: for a bundled-table region and a well-formed table, to_input returns
\* a map whose keys are exactly the table's area codes, each mapped to the
\* count of a row with that code, or to 5 where that row gives no count.
C2_TableInput ==
    (resolved.done /\ TableProbe /\ WellFormed(probe.file.rows))
    => LET rows == probe.file.rows
           m == resolved.res.value
       IN  /\ resolved.res.ok
           /\ DOMAIN m = {rows[i].msoa : i \in 1..Len(rows)}
           /\ \A c \in DOMAIN m :
                \E i \in 1..Len(rows) :
                    rows[i].msoa = c /\ m[c] = RowCount(rows[i])
           /\ \A i \in 1..Len(rows) :
                (\A j \in 1..Len(rows) : rows[j].msoa = rows[i].msoa => j = i)
                => m[rows[i].msoa] = RowCount(rows[i])

\* the spec's scenario has been resolved for a bundled-table region
C2_Witness ==
    /\ resolved.done
    /\ probe.region = Devon
    /\ probe.file.present
    /\ probe.file.rows = ScenarioTable
    /\ resolved.res.ok
    /\ resolved.res.value = (1 :> 5 @@ 2 :> 5)

\* C3 (as claimed): a table with two rows for the same area code makes
\* to_input fail.
C3_DuplicateRowsFail ==
    (resolved.done /\ TableProbe /\ HasDuplicate(probe.file.rows))
    => ~resolved.res.ok

\* C4: for National, to_input opens no table; when the directory answers,
\* the map's keys are exactly the codes it returned, each mapped to 5; when
\* the directory fails, to_input fails and returns no map.
C4_NationalInput ==
    (resolved.done /\ probe.region = National)
    => /\ resolved.opened = {}
       /\ probe.dir.up =>
            /\ resolved.res.ok
            /\ DOMAIN resolved.res.value = probe.dir.codes
            /\ \A c \in probe.dir.codes : resolved.res.value[c] = 5
       /\ ~probe.dir.up =>
            /\ ~resolved.res.ok
            /\ resolved.res.err = "SourceUnavailable"
            /\ resolved.res.value = EmptyMap

\* National resolved from the full directory while a table file exists
C4_Witness ==
    /\ resolved.done
    /\ probe.region = National
    /\ probe.dir = DirectoryOf(Codes)
    /\ probe.file = TableFile(ScenarioTable)
    /\ resolved.res.ok

\* C5: an Init with --rng-seed s that succeeds writes the same bytes as the
\* last successful Init with the same seed, region and source did, whatever
\* was invoked in between.
C5_SeededInitRepeats ==
    (pc = "done" /\ action = "Init" /\ result = "ok" /\ seed # None
        /\ prevInit.set /\ prevInit.seed = seed /\ prevInit.region = region
        /\ prevInit.source = source)
    => FileAt(fs, PopulationArtifact(region)) =
            [kind |-> "bin", data |-> prevInit.data]

\* a second seeded Init of the same region and source has succeeded
C5_Witness ==
    /\ pc = "done" /\ action = "Init" /\ result = "ok" /\ seed # None
    /\ prevInit.set /\ prevInit.seed = seed /\ prevInit.region = region
    /\ prevInit.source = source
    /\ region = Devon

\* C6: Init writes to, and every downstream action reads from,
\* processed_data/<r>.bin; so a region's completely written population is
\* at the path a downstream action reads, and its load does not miss it.
C6_OnePathPerRegion ==
    /\ \A r \in Regions :
            /\ InitOutputPath(r) = PopulationArtifact(r)
            /\ \A a \in Downstream : InputPath(a, r) = PopulationArtifact(r)
    /\ \A r \in Regions :
            stored[r].state = "complete"
            => \A a \in Downstream :
                    FileAt(fs, InputPath(a, r)) =
                        [kind |-> "bin", data |-> Serialize(stored[r].pop)]
    /\ (Running /\ action \in Downstream /\ stored[region].state = "complete"
            /\ calls # <<>>)
       => result # "ArtifactMissing"

\* run-model has loaded the population a completed Init stored
C6_Witness ==
    /\ pc = "loaded"
    /\ action = "RunModel"
    /\ stored[region].state = "complete"
    /\ population = stored[region].pop
    /\ population.initial # EmptyMap

\* C7 (as claimed): one generator per invocation, built from the seed, and
\* every action that succeeds has handed it to its stage.
C7_RngHandedToEveryStage ==
    /\ Running => rngMade = 1
    /\ (Running /\ seed # None) => rng = seed[1]
    /\ (pc = "done" /\ result = "ok") => Len(rngGiven) = 1

\* C7 (amended): one generator per invocation, built before the dispatch
\* from the seed and not replaced; Init, Snapshot and RunModel hand it to
\* their stage, exactly once; PythonCache hands it to nothing.
C7_RngHandedToThreeStages ==
    /\ Running => rngMade = 1
    /\ (Running /\ seed # None) => rng = seed[1]
    /\ Running => Len(rngGiven) <= 1
    /\ (pc = "done" /\ result = "ok") =>
            rngGiven = CASE action = "Init" -> <<"Population::create">>
                         [] action = "Snapshot" -> <<"convert_to_npz">>
                         [] action = "RunModel" -> <<"Model::new">>
                         [] action = "PythonCache" -> <<>>

\* python-cache has succeeded and no callee was given the generator
C7_Witness ==
    /\ pc = "done"
    /\ result = "ok"
    /\ action = "PythonCache"
    /\ rngMade = 1
    /\ rngGiven = <<>>

\* C8: when the last write of a region's artifact was cut short, a
\* downstream action for it ends with ArtifactCorrupt (or is killed), writes
\* nothing and calls no transform; when nothing was ever written it ends
\* with ArtifactMissing; and whatever a downstream action has loaded is a
\* population that an Init wrote completely.
C8_PartialArtifactRejected ==
    (Running /\ action \in Downstream)
    => /\ stored[region].state = "partial" =>
            /\ pc \in {"dispatch", "done"}
            /\ pc = "done" => result \in {"ArtifactCorrupt", "killed"}
            /\ calls \in {<<>>, <<"read_binary">>}
            /\ wrote = {}
            /\ fs = fsStart
       /\ stored[region].state = "none" =>
            /\ pc \in {"dispatch", "done"}
            /\ pc = "done" => result \in {"ArtifactMissing", "killed"}
       /\ (pc = "loaded" \/ wrote # {} \/ Len(calls) > 1) =>
            /\ stored[region].state = "complete"
            /\ population = stored[region].pop

\* snapshot has rejected an artifact that is one word short
C8_Witness ==
    /\ pc = "done"
    /\ action = "Snapshot"
    /\ result = "ArtifactCorrupt"
    /\ stored[region].state = "partial"
    /\ Len(FileAt(fs, PopulationArtifact(region)).data) > 1

\* C9: an Init whose source cannot be resolved (no table, a malformed row,
\* the directory down) or whose synthesizer failed has ended with that
\* error, made each call at most once, attempted no write and left every
\* file as it was; and an Init that has written did so after to_input and
\* Population::create.
C9_InitWritesLast ==
    (Running /\ action = "Init")
    => /\ (UnresolvableSource
            \/ result \in {"SourceUnavailable", "MalformedInputRow"}) =>
            /\ pc = "done"
            /\ result \in {"SourceUnavailable", "MalformedInputRow"}
            /\ UnresolvableSource
            /\ calls = <<"to_input">>
            /\ wrote = {}
            /\ fs = fsStart
       /\ result = "SynthesisFailure" =>
            /\ pc = "done"
            /\ calls = <<"to_input", "Population::create">>
            /\ wrote = {}
            /\ fs = fsStart
       /\ (wrote # {} \/ fs # fsStart) =>
            /\ Len(calls) >= 2
            /\ SubSeq(calls, 1, 2) = <<"to_input", "Population::create">>
            /\ result \notin {"SourceUnavailable", "MalformedInputRow",
                              "SynthesisFailure"}

\* an Init has failed in the synthesizer with an earlier artifact in place
C9_Witness ==
    /\ pc = "done"
    /\ action = "Init"
    /\ result = "SynthesisFailure"
    /\ stored[region].state = "complete"
    /\ FileAt(fs, PopulationArtifact(region)).kind = "bin"

====
